---- MODULE Spec2Model ----
(***************************************************************************)
(* Model of the two servers of the repository.                             *)
(*                                                                         *)
(*  - the web server (src/src/services/webServer.js, and its ES-module     *)
(*    twin src/unnamed/part_001): the `tools` table and the                *)
(*    POST /mcp/tools/call handler, a plain request/response tool router;  *)
(*  - the MCP server (src/mcpServer.js): the module-level `transport`,     *)
(*    GET /sse, the "close" handler, POST /messages and the three          *)
(*    server.tool registrations.                                           *)
(*                                                                         *)
(* The two servers share no state; SpecWeb runs the first and Spec the     *)
(* second.  Values of request payloads are abstracted to their JavaScript  *)
(* kind (absent, number, string, array ...), which is all the code and the *)
(* zod schemas look at.                                                    *)
(***************************************************************************)
EXTENDS Integers, Sequences, FiniteSets, Bags

VARIABLES
    calls,            \* web server: POST /mcp/tools/call requests, by slot
    conns,            \* MCP server: state of each GET /sse response stream
    transport,        \* MCP server: module-level `let transport` (mcpServer.js:136)
    serverTransport,  \* MCP server: transport the McpServer is connected to
    baseUrlSet,       \* MCP server: whether UNI_ADAPTER_WEB_URL is set (mcpServer.js:28)
    sse,              \* MCP server: bag of the events written to each response stream
    invs              \* MCP server: POST /messages tool invocations, by correlation id

vars == <<calls, conns, transport, serverTransport, baseUrlSet, sse, invs>>
mcpVars == <<conns, transport, serverTransport, baseUrlSet, sse, invs>>

\* Bounds of the model.
MaxCalls == 2
MaxConns == 2
MaxInvs == 2

CallIds == 1..MaxCalls
ConnIds == 1..MaxConns
InvIds == 1..MaxInvs

-----------------------------------------------------------------------------
(* JavaScript values, by kind *)

Undefined == "<undefined>"
Null == 0

\* Array.isArray(v)
IsArray(v) == v \in {"numArray", "vecArray"}

\* !v is false: every kind of value but undefined and the empty string (a
\* payload's "number" is a non-zero number)
Truthy(v) == v \notin {Undefined, "emptyString"}

Fields == {"vector", "topK", "vectors", "pageId", "extra"}

EmptyPayload == [f \in Fields |-> Undefined]

\* Payloads sent to a tool: the fields the tool reads, each absent, well typed
\* or ill typed, and an unknown extra field.
QueryPayloads ==
    { [EmptyPayload EXCEPT !.vector = v, !.topK = k, !.extra = e] :
        v \in {Undefined, "numArray", "string"},
        k \in {Undefined, "number", "string"},
        e \in {Undefined, "string"} }

UpsertPayloads ==
    { [EmptyPayload EXCEPT !.vectors = v, !.extra = e] :
        v \in {Undefined, "vecArray", "string"},
        e \in {Undefined, "string"} }

PagePayloads ==
    { [EmptyPayload EXCEPT !.pageId = p, !.extra = e] :
        p \in {Undefined, "string", "emptyString", "number"},
        e \in {Undefined, "string"} }

PayloadsFor(name) ==
    CASE name = "pinecone_query" -> QueryPayloads
      [] name = "pinecone_upsert" -> UpsertPayloads
      [] name = "notion_get_page" -> PagePayloads
      [] OTHER -> {EmptyPayload, [EmptyPayload EXCEPT !.pageId = "string"]}

-----------------------------------------------------------------------------
(* The tool table of the web server *)

\* own properties of `tools`
ToolNames == {"pinecone_query", "pinecone_upsert", "notion_get_page"}

\* properties every object inherits from Object.prototype (two of them)
InheritedNames == {"toString", "__proto__"}

\* tools[name]: an own property, a property inherited from Object.prototype
\* ("toString" is a function, "__proto__" is the prototype object), or undefined
ToolLookup(name) ==
    CASE name \in ToolNames -> "tool"
      [] name = "toString" -> "inheritedFunction"
      [] name = "__proto__" -> "inheritedObject"
      [] OTHER -> Undefined

\* The check a tool handler makes before it calls its adapter: the message of
\* the Error it throws, or Undefined when it goes on to the adapter.
ToolGuard(name, args) ==
    CASE name = "pinecone_query" ->
            IF ~IsArray(args.vector) THEN "vector must be an array of numbers" ELSE Undefined
      [] name = "pinecone_upsert" ->
            IF ~IsArray(args.vectors) THEN "vectors must be an array" ELSE Undefined
      [] name = "notion_get_page" ->
            IF ~Truthy(args.pageId) THEN "pageId is required" ELSE Undefined
      [] OTHER -> Undefined

\* The adapter function a tool handler awaits
AdapterOf(name) ==
    CASE name = "pinecone_query" -> "queryVectors"
      [] name = "pinecone_upsert" -> "upsertVectors"
      [] name = "notion_get_page" -> "notionGetPage"
      [] OTHER -> Undefined

-----------------------------------------------------------------------------
(* Web server: POST /mcp/tools/call *)

RequestNames == ToolNames \cup {"foo_bar", "toString", "__proto__", "", Undefined}

\* req.body: absent, or {name, arguments} with either possibly absent
Bodies ==
    { [hasBody |-> FALSE, name |-> Undefined, hasArgs |-> FALSE, args |-> EmptyPayload] }
    \cup
    { [hasBody |-> TRUE, name |-> n, hasArgs |-> FALSE, args |-> EmptyPayload] :
        n \in RequestNames }
    \cup
    UNION { { [hasBody |-> TRUE, name |-> n, hasArgs |-> TRUE, args |-> a] :
                a \in PayloadsFor(n) } : n \in RequestNames }

NoBody == [hasBody |-> FALSE, name |-> Undefined, hasArgs |-> FALSE, args |-> EmptyPayload]

IdleCall ==
    [pc |-> "idle", body |-> NoBody, lookups |-> 0, handlerCalls |-> 0,
     adapterCalls |-> <<>>, settled |-> Undefined, responses |-> <<>>, escaped |-> FALSE]

\* const { name, arguments: args } = req.body || {}
NameOf(body) == IF body.hasBody THEN body.name ELSE Undefined
ArgsOf(body) == IF body.hasBody /\ body.hasArgs THEN body.args ELSE EmptyPayload

\* Mutant of MissingName: only an absent name is missing (name === undefined)
MissingNameAbsentOnly(body) == NameOf(body) = Undefined

\* !name: the name is undefined or the empty string
MissingName(body) == NameOf(body) \in {Undefined, ""}

\* res.status(code).json(payload): one response written, the handler is over
Respond(call, code, payload) ==
    [call EXCEPT !.pc = "done",
                 !.responses = Append(@, [code |-> code, payload |-> payload])]

\* Mutant of Catch: no catch block, the rejection leaves the handler unanswered
CatchEscapes(call, message) == [call EXCEPT !.pc = "done", !.escaped = TRUE]

\* Mutant of Catch: the error is swallowed and the request acknowledged
CatchAcknowledges(call, message) ==
    Respond(call, 202, [error |-> Undefined, arg |-> Undefined])

\* catch (err) { res.status(500).json({ error: err.message || String(err) }) }
Catch(call, message) ==
    Respond(call, 500, [error |-> message, arg |-> Undefined])

\* The handler up to its first await, for a request with body `body`.
CallStart(call, body) ==
    LET c0 == [call EXCEPT !.body = body]
        name == NameOf(body)
        args == ArgsOf(body)
    IN  IF MissingName(body)
        THEN Respond(c0, 400, [error |-> "Missing \"name\" in request body", arg |-> Undefined])
        ELSE LET c1 == [c0 EXCEPT !.lookups = @ + 1]
                 tool == ToolLookup(name)
             IN  IF tool = Undefined
                 THEN Respond(c1, 404, [error |-> "Tool \"%s\" not found", arg |-> name])
                 ELSE LET c2 == [c1 EXCEPT !.handlerCalls = @ + 1]
                      IN  CASE tool = "inheritedObject" ->
                                 Catch(c1, "tool is not a function")
                            [] tool = "inheritedFunction" ->
                                 Respond(c2, 200, [result |-> "[object Undefined]"])
                            [] OTHER ->
                                 IF ToolGuard(name, args) # Undefined
                                 THEN Catch(c2, ToolGuard(name, args))
                                 ELSE [c2 EXCEPT !.pc = "awaiting",
                                                 !.adapterCalls = Append(@, AdapterOf(name))]

\* The handler after the adapter's promise settles.
CallResume(call, ok) ==
    IF ok
    THEN Respond([call EXCEPT !.settled = "returned"], 200, [result |-> "content"])
    ELSE Catch([call EXCEPT !.settled = "threw"], "adapter error")

PostToolsCall(i, body) ==
    /\ calls[i].pc = "idle"
    /\ \A j \in CallIds : j < i => calls[j].pc # "idle"
    /\ calls' = [calls EXCEPT ![i] = CallStart(calls[i], body)]
    /\ UNCHANGED mcpVars

AdapterSettles(i, ok) ==
    /\ calls[i].pc = "awaiting"
    /\ calls' = [calls EXCEPT ![i] = CallResume(calls[i], ok)]
    /\ UNCHANGED mcpVars


-----------------------------------------------------------------------------
(* MCP server: the registered tools (server.tool) *)

McpToolNames == {"pinecone_query", "pinecone_upsert", "notion_get_page"}

\* Fields a tool's inputSchema declares without .optional()
RequiredFields(name) ==
    CASE name = "pinecone_query" -> {"vector", "topK"}
      [] name = "pinecone_upsert" -> {"vectors"}
      [] name = "notion_get_page" -> {"pageId"}
      [] OTHER -> {}

\* The kinds of value a required field's zod type accepts
WellTyped(field) ==
    CASE field = "vector" -> {"numArray"}              \* z.array(z.number())
      [] field = "topK" -> {"number"}                  \* z.number()
      [] field = "vectors" -> {"vecArray"}             \* z.array(z.object({id, values, metadata?}))
      [] field = "pageId" -> {"string", "emptyString"} \* z.string()
      [] OTHER -> {}

\* inputSchema.parse(args) succeeds: every required field is present and well
\* typed; z.object ignores unknown keys.
ZodValid(name, args) ==
    \A f \in RequiredFields(name) : args[f] \in WellTyped(f)

-----------------------------------------------------------------------------
(* MCP server: GET /sse, the "close" handler, POST /messages *)

IsOpen(c) == c \in ConnIds /\ conns[c] = "open"

OpenConns == {c \in ConnIds : conns[c] = "open"}

IdleInv ==
    [pc |-> "idle", via |-> Null, ack |-> 0,
     handlerCalls |-> 0, adapterCalls |-> 0, status |-> Undefined, error |-> Undefined,
     openAtPost |-> FALSE, openAtPush |-> {}, serverAtPush |-> FALSE]

\* app.get("/sse"): a new transport replaces the module-level one, the close
\* handler is registered, and server.connect(transport) makes it the server's
\* transport and starts it: the SDK's Protocol.connect stores the transport,
\* and SSEServerTransport.start opens the stream with its endpoint event.
GetSse(c) ==
    /\ conns[c] = "none"
    /\ \A d \in ConnIds : d < c => conns[d] # "none"
    /\ transport' = c
    /\ serverTransport' = c
    /\ conns' = [conns EXCEPT ![c] = "open"]
    /\ sse' = [sse EXCEPT ![c] = @ (+) SetToBag({[id |-> 0, status |-> "endpoint"]})]
    /\ UNCHANGED <<calls, baseUrlSet, invs>>

\* res.on("close"): the handler of the closing connection clears the
\* module-level transport, whichever connection it holds; the SDK transport's
\* own close listener, installed by start, calls the server's onclose, which
\* forgets the server's transport.
ClientDisconnect(c) ==
    /\ conns[c] = "open"
    /\ conns' = [conns EXCEPT ![c] = "closed"]
    /\ transport' = Null
    /\ serverTransport' = Null
    /\ UNCHANGED <<calls, baseUrlSet, sse, invs>>

\* Mutant of NoTransport: the guard is gone
NoTransportNever == FALSE

\* if (!transport)
NoTransport == transport = Null

\* Mutant of Recipients: the event is broadcast to every open stream
RecipientsBroadcast(target) == OpenConns

\* Mutant of Recipients: the event is written whether or not the stream is open
RecipientsEvenClosed(target) == IF target \in ConnIds THEN {target} ELSE {}

\* Mutant of Recipients: the answer is dropped
RecipientsNone(target) == {}

\* transport.send(message): written to the transport's own response stream
\* while that stream is open, and to no other; a closed transport writes nothing.
Recipients(target) == IF IsOpen(target) THEN {target} ELSE {}

\* The transports the server may answer a request on. Releases of the SDK
\* differ: the answer goes to the transport the server was connected to when
\* the request came in (the one that handled the POST), or to the one it is
\* connected to when the answer is ready. Either may happen.
PushTargets(inv) == {inv.via, serverTransport}

Deliver(event, rcpts) ==
    [c \in ConnIds |-> IF c \in rcpts THEN sse[c] (+) SetToBag({event}) ELSE sse[c]]

\* The dispatch is over: its outcome is sent once, on one transport.
Push(i, inv, status, error, target) ==
    /\ invs' = [invs EXCEPT ![i] =
                  [inv EXCEPT !.pc = "done", !.status = status, !.error = error,
                              !.openAtPush = OpenConns,
                              !.serverAtPush = (serverTransport = inv.via)]]
    /\ sse' = Deliver([id |-> i, status |-> status], Recipients(target))

\* What the tool call does before any I/O: the message of the error it ends
\* with, or Undefined when the tool callback reaches axios.post.
DispatchError(name, args) ==
    IF name \notin McpToolNames THEN "tool not found"
    ELSE IF ~ZodValid(name, args) THEN "invalid arguments"
    ELSE IF ~baseUrlSet THEN "UNI_ADAPTER_WEB_URL is not set"
    ELSE Undefined

\* Whether the tool callback is entered
CallbackRuns(name, args) == name \in McpToolNames /\ ZodValid(name, args)

\* app.post("/messages") with a tools/call request of correlation id i
PostMessages(i, name, args) ==
    /\ invs[i].pc = "idle"
    /\ \A j \in InvIds : j < i => invs[j].pc # "idle"
    /\ LET posted == [invs[i] EXCEPT !.openAtPost = (OpenConns # {})]
       IN  IF NoTransport
           THEN /\ invs' = [invs EXCEPT ![i] = [posted EXCEPT !.pc = "rejected", !.ack = 400]]
                /\ UNCHANGED sse
           ELSE LET accepted == [posted EXCEPT !.via = transport, !.ack = 202,
                                   !.handlerCalls = IF CallbackRuns(name, args) THEN 1 ELSE 0]
                    err == DispatchError(name, args)
                IN  IF err # Undefined
                    THEN \E target \in PushTargets(accepted) :
                            Push(i, accepted, "error", err, target)
                    ELSE /\ invs' = [invs EXCEPT ![i] =
                                       [accepted EXCEPT !.pc = "awaiting", !.adapterCalls = 1]]
                         /\ UNCHANGED sse
    /\ UNCHANGED <<calls, conns, transport, serverTransport, baseUrlSet>>

\* axios.post settles: the callback returns its content, or throws
ToolReturns(i, ok) ==
    /\ invs[i].pc = "awaiting"
    /\ \E target \in PushTargets(invs[i]) :
          IF ok
          THEN Push(i, invs[i], "success", Undefined, target)
          ELSE Push(i, invs[i], "error", "adapter error", target)
    /\ UNCHANGED <<calls, conns, transport, serverTransport, baseUrlSet>>

McpNames == McpToolNames \cup {"foo_bar"}

Init ==
    /\ calls = [i \in CallIds |-> IdleCall]
    /\ conns = [c \in ConnIds |-> "none"]
    /\ transport = Null
    /\ serverTransport = Null
    /\ baseUrlSet \in BOOLEAN
    /\ sse = [c \in ConnIds |-> EmptyBag]
    /\ invs = [i \in InvIds |-> IdleInv]

Next ==
    \/ \E c \in ConnIds : GetSse(c)
    \/ \E c \in ConnIds : ClientDisconnect(c)
    \/ \E i \in InvIds, name \in McpNames : \E args \in PayloadsFor(name) :
          PostMessages(i, name, args)
    \/ \E i \in InvIds, ok \in BOOLEAN : ToolReturns(i, ok)

Spec == Init /\ [][Next]_vars

InitWeb ==
    /\ calls = [i \in CallIds |-> IdleCall]
    /\ conns = [c \in ConnIds |-> "none"]
    /\ transport = Null
    /\ serverTransport = Null
    /\ baseUrlSet = TRUE
    /\ sse = [c \in ConnIds |-> EmptyBag]
    /\ invs = [i \in InvIds |-> IdleInv]

NextWeb ==
    \/ \E i \in CallIds, body \in Bodies : PostToolsCall(i, body)
    \/ \E i \in CallIds, ok \in BOOLEAN : AdapterSettles(i, ok)

SpecWeb == InitWeb /\ [][NextWeb]_vars

\* Every request the adapter is awaited for is eventually answered by it.
FairSpec == Spec /\ \A i \in InvIds : WF_vars(\E ok \in BOOLEAN : ToolReturns(i, ok))

-----------------------------------------------------------------------------
(* Properties of the web server (SpecWeb) *)

\* The request carries a name: a body, and in it a name that is not empty
NamePresent(c) == c.body.hasBody /\ c.body.name \notin {Undefined, ""}

\* C1: every invocation that reaches dispatch (its name is present), for a
\* known or unknown tool, valid or invalid arguments, an adapter that returns
\* or throws, ends with exactly one response, of status success (200) or error
\* (404, 500), and no exception leaves the handler; before it ends it has none.
C1_DispatchExactlyOneOutcome ==
    \A i \in CallIds :
        LET c == calls[i]
        IN  /\ ~c.escaped
            /\ c.pc # "done" => Len(c.responses) = 0
            /\ (c.pc = "done" /\ NamePresent(c)) =>
                  /\ Len(c.responses) = 1
                  /\ c.responses[1].code \in {200, 404, 500}

\* C1 witness: a known tool with valid arguments whose adapter threw, answered once
C1_Witness ==
    \E i \in CallIds :
        /\ calls[i].pc = "done"
        /\ calls[i].body.name \in ToolNames
        /\ calls[i].settled = "threw"
        /\ Len(calls[i].responses) = 1

C7_RequiredFieldsEnforced ==
    \A i \in CallIds :
        LET c == calls[i]
            name == c.body.name
            args == ArgsOf(c.body)
        IN  (c.pc # "idle" /\ NamePresent(c) /\ name \in ToolNames) =>
              /\ (\E f \in RequiredFields(name) : args[f] = Undefined) =>
                    /\ c.adapterCalls = <<>>
                    /\ c.pc = "done"
                    /\ c.responses[1].code >= 400
              /\ (\A f \in RequiredFields(name) : args[f] \in WellTyped(f)) =>
                    c.adapterCalls # <<>>

\* C8: a request without a name (no body, no name, an empty name) is answered
\* 400 at once, before any tool lookup: no handler, no adapter, no other outcome.
C8_MissingNameRejected ==
    \A i \in CallIds :
        LET c == calls[i]
        IN  (c.pc # "idle" /\ ~NamePresent(c)) =>
              /\ c.pc = "done"
              /\ c.responses = <<[code |-> 400,
                                  payload |-> [error |-> "Missing \"name\" in request body",
                                               arg |-> Undefined]]>>
              /\ c.lookups = 0
              /\ c.handlerCalls = 0
              /\ c.adapterCalls = <<>>

\* C8 witness: a body whose name is the empty string, rejected
C8_Witness ==
    \E i \in CallIds :
        /\ calls[i].pc = "done"
        /\ calls[i].body.hasBody
        /\ calls[i].body.name = ""
        /\ calls[i].responses[1].code = 400

-----------------------------------------------------------------------------
(* Properties of the MCP server (Spec, FairSpec) *)

\* Events carrying correlation id i written to connection c
EventsOn(c, i) ==
    CopiesIn([id |-> i, status |-> "success"], sse[c])
    + CopiesIn([id |-> i, status |-> "error"], sse[c])

RECURSIVE EventsOver(_, _)
EventsOver(S, i) ==
    IF S = {} THEN 0
    ELSE LET c == CHOOSE x \in S : TRUE
         IN  EventsOn(c, i) + EventsOver(S \ {c}, i)

\* Events carrying correlation id i, over all connections
PushedCount(i) == EventsOver(ConnIds, i)

\* Connections that received an event carrying correlation id i
RecipientsOf(i) == {c \in ConnIds : EventsOn(c, i) > 0}

\* The server's record of streaming connections: the module-level transport
Entries == IF transport = Null THEN {} ELSE {transport}

C3_NoConnectionRejected ==
    \A i \in InvIds :
        LET v == invs[i]
        IN  (v.pc # "idle" /\ ~v.openAtPost) =>
              /\ v.pc = "rejected"
              /\ v.ack = 400
              /\ v.handlerCalls = 0
              /\ v.adapterCalls = 0
              /\ v.status = Undefined
              /\ PushedCount(i) = 0

\* C3 witness: an invocation rejected with no connection open, and a connection open now
C3_Witness ==
    \E i \in InvIds :
        /\ invs[i].pc = "rejected"
        /\ ~invs[i].openAtPost
        /\ OpenConns # {}

C5_OneEntryPerLiveConnection == Entries = OpenConns

\* A connection disconnected while the invocation accepted on it was in flight
DisconnectedInFlight(v) == v.pc = "done" /\ v.via # Null /\ v.via \notin v.openAtPush

C10_RejectedOnlyWithoutConnection ==
    /\ OpenConns # {} => IsOpen(transport)
    /\ \A i \in InvIds : invs[i].pc = "rejected" => ~invs[i].openAtPost

====
